---- MODULE Spec2Model ----
(***************************************************************************)
(* State-machine model of the NestJS tutorial backend: UsersService,       *)
(* CategoriesService and ProductsService over their TypeORM repositories.  *)
(* The persistent store is the three tables; every service method is one   *)
(* action (requests are served one at a time).  `last` records the most    *)
(* recent call: its arguments, the HTTP-class outcome and the value it     *)
(* returned.  The specifications named ...Race serve two requests at a     *)
(* time, interleaved at the awaits of the service methods; `inflight`      *)
(* holds the requests that have started and not yet answered.  SpecUsers-  *)
(* List puts the Angular UsersListComponent in front of the users          *)
(* endpoints: `component` holds its fields and `http` the requests it has  *)
(* sent and not yet had an answer to.                                      *)
(*                                                                         *)
(* Payloads are the ones the global ValidationPipe lets through            *)
(* (whitelist + forbidNonWhitelisted): only DTO fields, each with a valid  *)
(* non-null value, optional fields possibly absent.  Of the columns that   *)
(* are plain data, on which no method branches, Product.nombre is kept,    *)
(* and precio and stock where the request bodies carry them (SpecProducts- *)
(* Validation); the others (User.nombre and apellido, descripcion,         *)
(* imageUrl, updatedAt) are carried through the same statements and are    *)
(* left out.  createdAt is kept as a logical time: the number of the       *)
(* insert into its table.                                                  *)
(***************************************************************************)
EXTENDS Integers, Sequences, FiniteSets, TLC

VARIABLES users, categories, products, last, inflight, component, http

vars == <<users, categories, products, last, inflight, component, http>>

(***************************************************************************)
(* Bounds of the model.                                                    *)
(***************************************************************************)
MaxUsers == 2
MaxCategories == 2
MaxProducts == 2
\* Rows in the three tables together, in the specification of the whole
\* backend (Spec); SpecUsers and SpecCatalog explore one module each, up to
\* the three bounds above.
MaxRows == 2

\* The requests the component has outstanding at once.
MaxPending == 2

(***************************************************************************)
(* Input domains.                                                          *)
(***************************************************************************)
Emails == {"ana@x.com", "luis@x.com"}
Passwords == {"secret1", "secret2"}
CategoryNames == {"Electronics", "Ropa"}
ProductNames == {"Laptop", "Mouse"}

\* Ids a client may put in a URL (ParseIntPipe) or in categoryId (@IsInt,
\* @IsPositive).  Generated ids are 1, 2, ...; an id above the number of rows
\* stored so far matches no row, like any other id that no row has.
UserIds == 1..MaxUsers
CategoryIds == 1..MaxCategories
ProductIds == 1..MaxProducts

\* PartialType(Dto): every field optional, so a payload carries any subset
\* of the keys, each with a value valid for the create payload.
PartialType(Dto, fields) == {[k \in S |-> d[k]] : d \in Dto, S \in SUBSET fields}

\* Whether the payload carries the key.
Has(dto, key) == key \in DOMAIN dto

CreateUserDto == [email : Emails, password : Passwords]
UpdateUserDto == PartialType(CreateUserDto, {"email", "password"})

CreateCategoryDto == [nombre : CategoryNames]
UpdateCategoryDto == PartialType(CreateCategoryDto, {"nombre"})

CreateProductDto == [nombre : ProductNames, categoryId : CategoryIds]
UpdateProductDto == PartialType(CreateProductDto, {"nombre", "categoryId"})

\* The query string of GET /products: without categoryId, or with a raw
\* string for it (a decimal number or not).
NumericStrings == {ToString(n) : n \in 0..MaxCategories}
ProductsQuery == PartialType([categoryId : NumericStrings \cup {"abc"}], {"categoryId"})

\* The numbers a request body may carry for precio and stock, counted in
\* thousandths: 0, 0.004, 0.01, 1.99 and -1, 0, 0.5, 2.
PrecioValues == {0, 4, 10, 1990}
StockValues == {-1000, 0, 500, 2000}

\* Bodies of POST /products and PATCH /products/:id as they arrive, before
\* the ValidationPipe: precio and stock with any of the numbers, or missing;
\* a PATCH of precio and stock alone.
ProductNumbers == PartialType([precio : PrecioValues, stock : StockValues],
                              {"precio", "stock"})
CreateProductBodies ==
    {[nombre |-> "Laptop", categoryId |-> 1] @@ numbers : numbers \in ProductNumbers}
UpdateProductBodies == ProductNumbers

\* The argument of a call that takes no payload.
NoDto == <<>>

\* The requests the server works on at the same time, and a free place.
\* A request in flight is its method (entity, op) and arguments, the await it
\* waits at (pc) and the entity it loaded (local).
Slots == {1, 2}
Idle == [entity |-> "none", op |-> "none", id |-> 0, dto |-> NoDto,
         pc |-> "idle", local |-> <<>>]

\* Payloads of the requests served two at a time.
RaceCreateUserDto == [email : Emails, password : {"secret1"}]
RaceUpdateUserDto == PartialType(RaceCreateUserDto, {"email"})
RaceCreateProductDto == [nombre : {"Laptop"}, categoryId : CategoryIds]
RaceUpdateProductDto == PartialType(RaceCreateProductDto, {"categoryId"})

(***************************************************************************)
(* Library behaviour the services rely on.                                 *)
(***************************************************************************)
\* bcrypt.hash(plain, 10): the stored form is never the plaintext.
Hash(plain) == "$2b$10$" \o plain

\* A where condition { column: value }: the positions of the rows it matches.
\* A condition on several columns is the intersection.
Where(table, column, value) == {i \in 1..Len(table) : table[i][column] = value}

\* The where condition { isActive: true }.
Active(table) == Where(table, "isActive", TRUE)

\* repository.findOne({ where }): the first of the matching rows, 0 standing
\* for null.
FindOne(table, matching) ==
    LET S == matching \cap (1..Len(table))
    IN  IF S = {} THEN 0 ELSE CHOOSE i \in S : \A j \in S : i <= j

\* repository.find({ where }): the matching rows in table order.
Find(table, matching) ==
    LET rows[n \in 0..Len(table)] ==
            IF n = 0 THEN <<>>
            ELSE IF n \in matching THEN Append(rows[n - 1], table[n])
            ELSE rows[n - 1]
    IN  rows[Len(table)]

\* @CreateDateColumn: the time of the INSERT, here the number of the insert
\* into the table.
InsertTime(table) == Len(table) + 1

\* The entity as save() hands it back: with its generated id and createdAt
\* when it was inserted.
Saved(table, entity) ==
    IF entity.id = 0
    THEN [entity EXCEPT !.id = Len(table) + 1, !.createdAt = InsertTime(table)]
    ELSE entity

\* A decimal(10, 2) column holds the number rounded (half up) to two decimal
\* places.  Numbers with decimals are counted in thousandths.
Decimal2(v) == ((v + 5) \div 10) * 10

\* The row the database holds for an entity: each value as its column type
\* stores it.
Columns(entity) ==
    [f \in DOMAIN entity |-> IF f = "precio" THEN Decimal2(entity[f]) ELSE entity[f]]

\* repository.save(entity): INSERT with the next generated id when the entity
\* has none (id 0), UPDATE of the row with that id otherwise.
Save(table, entity) ==
    IF entity.id = 0
    THEN Append(table, Columns(Saved(table, entity)))
    ELSE [table EXCEPT ![entity.id] = Columns(entity)]

\* Object.assign(entity, dto): the keys present in the payload overwrite the
\* entity's, the others are left alone.
ObjectAssign(entity, dto) ==
    [f \in DOMAIN entity |-> IF Has(dto, f) THEN dto[f] ELSE entity[f]]

\* JavaScript truthiness of an optional string field of the payload.
Truthy(dto, key) == Has(dto, key) /\ dto[key] # ""

\* JavaScript truthiness of an optional numeric field of the payload.
TruthyNumber(dto, key) == Has(dto, key) /\ dto[key] # 0

\* ParseIntPipe.isNumeric and parseInt(value, 10) on a raw string.
IsNumeric(value) == \E n \in 0..MaxCategories : ToString(n) = value
ParseInt(value) == CHOOSE n \in 0..MaxCategories : ToString(n) = value

\* @Query(key, ParseIntPipe), no `optional` option: a value that is missing
\* (undefined) or not a numeric string is rejected with 400.
ParseIntPipe(query, key) ==
    IF Has(query, key) /\ IsNumeric(query[key])
    THEN [status |-> "OK", value |-> ParseInt(query[key])]
    ELSE [status |-> "BadRequest", value |-> 0]

\* class-validator decorators, on numbers counted in thousandths.
IsNumber(v, maxDecimalPlaces) ==
    CASE maxDecimalPlaces = 2 -> v % 10 = 0
      [] maxDecimalPlaces = 3 -> TRUE
IsInt(v) == v % 1000 = 0
IsPositive(v) == v > 0
Min(v, min) == v >= min

\* Variant: precio is declared @IsNumber() without maxDecimalPlaces.
CreateProductDto_precio_AnyDecimals(v) == IsNumber(v, 3) /\ IsPositive(v)

\* The decorators of CreateProductDto on precio, stock and categoryId.
CreateProductDto_precio(v) == IsNumber(v, 2) /\ IsPositive(v)
CreateProductDto_stock(v) == IsInt(v) /\ Min(v, 0)
CreateProductDto_categoryId(v) == IsInt(v * 1000) /\ IsPositive(v)

\* The global ValidationPipe on a product body: every field the body has
\* must pass its decorators; a missing field is an error unless the DTO is
\* the PartialType (every field @IsOptional).
ValidationPipe(body, optional) ==
    /\ optional \/ DOMAIN body = {"nombre", "categoryId", "precio", "stock"}
    /\ Has(body, "nombre") => body.nombre # ""
    /\ Has(body, "precio") => CreateProductDto_precio(body.precio)
    /\ Has(body, "stock") => CreateProductDto_stock(body.stock)
    /\ Has(body, "categoryId") => CreateProductDto_categoryId(body.categoryId)

(***************************************************************************)
(* UsersService.  Each method maps the users table and its arguments to    *)
(* the table afterwards, the outcome and the returned value.               *)
(***************************************************************************)
UserThrow(us, error) == [users |-> us, status |-> error, ret |-> <<>>]

\* Variant: the lookup has no isActive condition.
UsersService_findOne_AnyRow(us, id) ==
    LET user == FindOne(us, Where(us, "id", id))
    IN  IF user = 0
        THEN UserThrow(us, "NotFound")
        ELSE [users |-> us, status |-> "OK", ret |-> <<us[user]>>]

UsersService_findOne(us, id) ==
    LET user == FindOne(us, Where(us, "id", id) \cap Active(us))
    IN  IF user = 0
        THEN UserThrow(us, "NotFound")
        ELSE [users |-> us, status |-> "OK", ret |-> <<us[user]>>]

\* Variant: the duplicate check sees only active users.
UsersService_create_ActiveOnly(us, createUserDto) ==
    LET existingUser ==
            FindOne(us, Where(us, "email", createUserDto.email) \cap Active(us))
    IN  IF existingUser # 0
        THEN UserThrow(us, "Conflict")
        ELSE LET newUser == [id |-> 0, email |-> createUserDto.email,
                             password |-> Hash(createUserDto.password),
                             isActive |-> TRUE, createdAt |-> 0]
             IN  [users |-> Save(us, newUser), status |-> "OK",
                  ret |-> <<Saved(us, newUser)>>]

UsersService_create(us, createUserDto) ==
    LET existingUser == FindOne(us, Where(us, "email", createUserDto.email))
    IN  IF existingUser # 0
        THEN UserThrow(us, "Conflict")
        ELSE LET hashedPassword == Hash(createUserDto.password)
                 newUser == [id |-> 0,
                             email |-> createUserDto.email,
                             password |-> hashedPassword,
                             isActive |-> TRUE, createdAt |-> 0]
             IN  [users |-> Save(us, newUser), status |-> "OK",
                  ret |-> <<Saved(us, newUser)>>]

\* Variant: no isActive condition in the query.
UsersService_findAll_Everyone(us) ==
    LET active == Find(us, 1..Len(us))
    IN  [users |-> us, status |-> "OK",
         ret |-> [i \in 1..Len(active) |->
                    [id |-> active[i].id, email |-> active[i].email,
                     createdAt |-> active[i].createdAt]]]

UsersService_findAll(us) ==
    LET active == Find(us, Active(us))
    IN  [users |-> us, status |-> "OK",
         ret |-> [i \in 1..Len(active) |->
                    [id |-> active[i].id, email |-> active[i].email,
                     createdAt |-> active[i].createdAt]]]

\* Variant: the duplicate check does not exclude the user's own email.
UsersService_update_SelfConflict(us, id, updateUserDto) ==
    LET found == UsersService_findOne(us, id)
    IN  IF found.status # "OK"
        THEN found
        ELSE LET user == found.ret[1]
                 existingUser ==
                     IF Truthy(updateUserDto, "email")
                     THEN FindOne(us, Where(us, "email", updateUserDto.email))
                     ELSE 0
             IN  IF existingUser # 0
                 THEN UserThrow(us, "Conflict")
                 ELSE LET dto == IF Truthy(updateUserDto, "password")
                                 THEN [updateUserDto EXCEPT
                                         !.password = Hash(updateUserDto.password)]
                                 ELSE updateUserDto
                          assigned == ObjectAssign(user, dto)
                      IN  [users |-> Save(us, assigned), status |-> "OK",
                           ret |-> <<Saved(us, assigned)>>]

\* Variant: the payload is assigned without hashing its password.
UsersService_update_NoHash(us, id, updateUserDto) ==
    LET found == UsersService_findOne(us, id)
    IN  IF found.status # "OK"
        THEN found
        ELSE LET user == found.ret[1]
                 existingUser ==
                     IF Truthy(updateUserDto, "email") /\ updateUserDto.email # user.email
                     THEN FindOne(us, Where(us, "email", updateUserDto.email))
                     ELSE 0
             IN  IF existingUser # 0
                 THEN UserThrow(us, "Conflict")
                 ELSE LET assigned == ObjectAssign(user, updateUserDto)
                      IN  [users |-> Save(us, assigned), status |-> "OK",
                           ret |-> <<Saved(us, assigned)>>]

\* Variant: the password is hashed on every update, the stored one when the
\* payload has none.
UsersService_update_Rehash(us, id, updateUserDto) ==
    LET found == UsersService_findOne(us, id)
    IN  IF found.status # "OK"
        THEN found
        ELSE LET user == found.ret[1]
                 existingUser ==
                     IF Truthy(updateUserDto, "email") /\ updateUserDto.email # user.email
                     THEN FindOne(us, Where(us, "email", updateUserDto.email))
                     ELSE 0
             IN  IF existingUser # 0
                 THEN UserThrow(us, "Conflict")
                 ELSE LET assigned == ObjectAssign(user, updateUserDto)
                          hashed == [assigned EXCEPT !.password = Hash(assigned.password)]
                      IN  [users |-> Save(us, hashed), status |-> "OK",
                           ret |-> <<Saved(us, hashed)>>]

\* Variant: the duplicate check runs whenever the payload has an email and
\* tells the user's own row apart by its id.
UsersService_update_AlwaysCheck(us, id, updateUserDto) ==
    LET found == UsersService_findOne(us, id)
    IN  IF found.status # "OK"
        THEN found @@ [queries |-> <<"users.findOne">>]
        ELSE LET user == found.ret[1]
                 check == Truthy(updateUserDto, "email")
                 existingUser ==
                     IF check
                     THEN FindOne(us, Where(us, "email", updateUserDto.email) \ {id})
                     ELSE 0
                 reads == IF check THEN <<"users.findOne", "users.findOne:email">>
                          ELSE <<"users.findOne">>
             IN  IF existingUser # 0
                 THEN UserThrow(us, "Conflict") @@ [queries |-> reads]
                 ELSE LET dto == IF Truthy(updateUserDto, "password")
                                 THEN [updateUserDto EXCEPT
                                         !.password = Hash(updateUserDto.password)]
                                 ELSE updateUserDto
                          assigned == ObjectAssign(user, dto)
                      IN  [users |-> Save(us, assigned), status |-> "OK",
                           ret |-> <<Saved(us, assigned)>>,
                           queries |-> Append(reads, "users.save")]

\* The result also names, in `queries`, the repository calls the method
\* made, in order.
UsersService_update(us, id, updateUserDto) ==
    LET found == UsersService_findOne(us, id)
    IN  IF found.status # "OK"
        THEN found @@ [queries |-> <<"users.findOne">>]
        ELSE LET user == found.ret[1]
                 check == Truthy(updateUserDto, "email") /\ updateUserDto.email # user.email
                 existingUser ==
                     IF check
                     THEN FindOne(us, Where(us, "email", updateUserDto.email))
                     ELSE 0
                 reads == IF check THEN <<"users.findOne", "users.findOne:email">>
                          ELSE <<"users.findOne">>
             IN  IF existingUser # 0
                 THEN UserThrow(us, "Conflict") @@ [queries |-> reads]
                 ELSE LET dto == IF Truthy(updateUserDto, "password")
                                 THEN [updateUserDto EXCEPT
                                         !.password = Hash(updateUserDto.password)]
                                 ELSE updateUserDto
                          assigned == ObjectAssign(user, dto)
                      IN  [users |-> Save(us, assigned), status |-> "OK",
                           ret |-> <<Saved(us, assigned)>>,
                           queries |-> Append(reads, "users.save")]

UsersService_remove(us, id) ==
    LET found == UsersService_findOne(us, id)
    IN  IF found.status # "OK"
        THEN found
        ELSE LET user == [found.ret[1] EXCEPT !.isActive = FALSE]
             IN  [users |-> Save(us, user), status |-> "OK", ret |-> <<>>]

(***************************************************************************)
(* The Category <-> Product relation.  A product row holds the foreign key *)
(* category_id; a loaded entity carries the related rows.                  *)
(***************************************************************************)
\* Variant: the relation is loaded with the active products only.
ProductsOf_ActiveOnly(prods, categoryId) ==
    Find(prods, Where(prods, "category", categoryId) \cap Active(prods))

\* Category.products (relations: ['products']): all rows whose foreign key
\* is the category, active or not.
ProductsOf(prods, categoryId) == Find(prods, Where(prods, "category", categoryId))

\* A category loaded with relations: ['products'].
CategoryWithProducts(cats, prods, id) ==
    [id |-> id, nombre |-> cats[id].nombre, isActive |-> cats[id].isActive,
     createdAt |-> cats[id].createdAt, products |-> ProductsOf(prods, id)]

\* The columns of a loaded category (what save() writes to the categories row).
CategoryRow(category) ==
    [id |-> category.id, nombre |-> category.nombre, isActive |-> category.isActive,
     createdAt |-> category.createdAt]

\* A product with its eager relation: category is the Category row.
ProductWithCategory(cats, product) ==
    [product EXCEPT !.category = cats[product.category]]

(***************************************************************************)
(* CategoriesService.  Each method maps the two tables and its arguments   *)
(* to the tables afterwards, the outcome, the returned value and, for a    *)
(* BadRequest, the number its message names.                               *)
(***************************************************************************)
CatalogThrow(cats, prods, error, n) ==
    [categories |-> cats, products |-> prods, status |-> error, ret |-> <<>>,
     count |-> n]

CatalogReturn(cats, prods, value) ==
    [categories |-> cats, products |-> prods, status |-> "OK", ret |-> value,
     count |-> 0]

\* Variant: the duplicate check sees only active categories.
CategoriesService_create_ActiveOnly(cats, prods, createCategoryDto) ==
    LET existingCategory ==
            FindOne(cats, Where(cats, "nombre", createCategoryDto.nombre) \cap Active(cats))
    IN  IF existingCategory # 0
        THEN CatalogThrow(cats, prods, "Conflict", 0)
        ELSE LET category == [id |-> 0, nombre |-> createCategoryDto.nombre,
                              isActive |-> TRUE, createdAt |-> 0]
             IN  CatalogReturn(Save(cats, category), prods,
                               <<Saved(cats, category)>>)

CategoriesService_create(cats, prods, createCategoryDto) ==
    LET existingCategory ==
            FindOne(cats, Where(cats, "nombre", createCategoryDto.nombre))
    IN  IF existingCategory # 0
        THEN CatalogThrow(cats, prods, "Conflict", 0)
        ELSE LET category == [id |-> 0, nombre |-> createCategoryDto.nombre,
                              isActive |-> TRUE, createdAt |-> 0]
             IN  CatalogReturn(Save(cats, category), prods,
                               <<Saved(cats, category)>>)

CategoriesService_findAll(cats, prods) ==
    LET active == Find(cats, Active(cats))
    IN  CatalogReturn(cats, prods,
            [i \in 1..Len(active) |-> CategoryWithProducts(cats, prods, active[i].id)])

\* Variant: the category is returned with its active products only.
CategoriesService_findOne_ActiveProducts(cats, prods, id) ==
    LET category == FindOne(cats, Where(cats, "id", id) \cap Active(cats))
    IN  IF category = 0
        THEN CatalogThrow(cats, prods, "NotFound", 0)
        ELSE CatalogReturn(cats, prods,
                 <<[CategoryWithProducts(cats, prods, category) EXCEPT
                        !.products = SelectSeq(@, LAMBDA p : p.isActive)]>>)

CategoriesService_findOne(cats, prods, id) ==
    LET category == FindOne(cats, Where(cats, "id", id) \cap Active(cats))
    IN  IF category = 0
        THEN CatalogThrow(cats, prods, "NotFound", 0)
        ELSE CatalogReturn(cats, prods,
                           <<CategoryWithProducts(cats, prods, category)>>)

\* The result also names, in `queries`, the repository calls the method
\* made, in order.
CategoriesService_update(cats, prods, id, updateCategoryDto) ==
    LET found == CategoriesService_findOne(cats, prods, id)
    IN  IF found.status # "OK"
        THEN found @@ [queries |-> <<"categories.findOne">>]
        ELSE LET category == found.ret[1]
                 check == /\ Truthy(updateCategoryDto, "nombre")
                          /\ updateCategoryDto.nombre # category.nombre
                 categoriaExistente ==
                     IF check
                     THEN FindOne(cats, Where(cats, "nombre", updateCategoryDto.nombre))
                     ELSE 0
                 reads == IF check
                          THEN <<"categories.findOne", "categories.findOne:nombre">>
                          ELSE <<"categories.findOne">>
             IN  IF categoriaExistente # 0
                 THEN CatalogThrow(cats, prods, "Conflict", 0) @@ [queries |-> reads]
                 ELSE LET assigned == ObjectAssign(category, updateCategoryDto)
                      IN  CatalogReturn(Save(cats, CategoryRow(assigned)), prods,
                                        <<assigned>>)
                              @@ [queries |-> Append(reads, "categories.save")]

\* Variant: no check of the category's active products.
CategoriesService_remove_NoGuard(cats, prods, id) ==
    LET found == FindOne(cats, Where(cats, "id", id))
    IN  IF found = 0
        THEN CatalogThrow(cats, prods, "NotFound", 0)
        ELSE LET category == CategoryWithProducts(cats, prods, found)
                 removed == [category EXCEPT !.isActive = FALSE]
             IN  CatalogReturn(Save(cats, CategoryRow(removed)), prods, <<>>)

\* Variant: the check counts every product of the category, active or not.
CategoriesService_remove_CountAll(cats, prods, id) ==
    LET found == FindOne(cats, Where(cats, "id", id))
    IN  IF found = 0
        THEN CatalogThrow(cats, prods, "NotFound", 0)
        ELSE LET category == CategoryWithProducts(cats, prods, found)
                 activeProducts == category.products
             IN  IF Len(activeProducts) > 0
                 THEN CatalogThrow(cats, prods, "BadRequest", Len(activeProducts))
                 ELSE LET removed == [category EXCEPT !.isActive = FALSE]
                      IN  CatalogReturn(Save(cats, CategoryRow(removed)), prods, <<>>)

\* Variant: the flag is toggled instead of cleared.
CategoriesService_remove_Toggle(cats, prods, id) ==
    LET found == FindOne(cats, Where(cats, "id", id))
    IN  IF found = 0
        THEN CatalogThrow(cats, prods, "NotFound", 0)
        ELSE LET category == CategoryWithProducts(cats, prods, found)
                 activeProducts == SelectSeq(category.products, LAMBDA p : p.isActive)
             IN  IF Len(activeProducts) > 0
                 THEN CatalogThrow(cats, prods, "BadRequest", Len(activeProducts))
                 ELSE LET removed == [category EXCEPT !.isActive = ~category.isActive]
                      IN  CatalogReturn(Save(cats, CategoryRow(removed)), prods, <<>>)

\* Variant: the category is fetched with findOne(id), which sees active
\* categories only.
CategoriesService_remove_ActiveOnly(cats, prods, id) ==
    LET found == FindOne(cats, Where(cats, "id", id) \cap Active(cats))
    IN  IF found = 0
        THEN CatalogThrow(cats, prods, "NotFound", 0)
        ELSE LET category == CategoryWithProducts(cats, prods, found)
                 activeProducts == SelectSeq(category.products, LAMBDA p : p.isActive)
             IN  IF Len(activeProducts) > 0
                 THEN CatalogThrow(cats, prods, "BadRequest", Len(activeProducts))
                 ELSE LET removed == [category EXCEPT !.isActive = FALSE]
                      IN  CatalogReturn(Save(cats, CategoryRow(removed)), prods, <<>>)

CategoriesService_remove(cats, prods, id) ==
    LET found == FindOne(cats, Where(cats, "id", id))
    IN  IF found = 0
        THEN CatalogThrow(cats, prods, "NotFound", 0)
        ELSE LET category == CategoryWithProducts(cats, prods, found)
                 activeProducts == SelectSeq(category.products, LAMBDA p : p.isActive)
             IN  IF Len(activeProducts) > 0
                 THEN CatalogThrow(cats, prods, "BadRequest", Len(activeProducts))
                 ELSE LET removed == [category EXCEPT !.isActive = FALSE]
                      IN  CatalogReturn(Save(cats, CategoryRow(removed)), prods, <<>>)

(***************************************************************************)
(* ProductsService.                                                        *)
(***************************************************************************)
\* Variant: the category is looked up without the isActive condition.
ProductsService_create_AnyCategory(cats, prods, createProductDto) ==
    LET category == FindOne(cats, Where(cats, "id", createProductDto.categoryId))
    IN  IF category = 0
        THEN CatalogThrow(cats, prods, "NotFound", 0)
        ELSE LET product == [id |-> 0, nombre |-> createProductDto.nombre,
                             isActive |-> TRUE, createdAt |-> 0,
                             category |-> category]
             IN  CatalogReturn(cats, Save(prods, product),
                               <<ProductWithCategory(cats, Saved(prods, product))>>)

ProductsService_create(cats, prods, createProductDto) ==
    LET category ==
            FindOne(cats, Where(cats, "id", createProductDto.categoryId) \cap Active(cats))
    IN  IF category = 0
        THEN CatalogThrow(cats, prods, "NotFound", 0)
        ELSE LET productData ==
                     [k \in DOMAIN createProductDto \ {"categoryId"} |->
                         createProductDto[k]]
                 product == productData @@
                            [id |-> 0, isActive |-> TRUE, createdAt |-> 0,
                             category |-> category]
             IN  CatalogReturn(cats, Save(prods, product),
                               <<ProductWithCategory(cats, Saved(prods, product))>>)

ProductsService_findAll(cats, prods) ==
    LET active == Find(prods, Active(prods))
    IN  CatalogReturn(cats, prods,
            [i \in 1..Len(active) |-> ProductWithCategory(cats, active[i])])

\* Variant: the category is looked up first and its absence is an error.
ProductsService_findByCategory_CheckCategory(cats, prods, categoryId) ==
    LET category == FindOne(cats, Where(cats, "id", categoryId) \cap Active(cats))
        found == Find(prods, Where(prods, "category", categoryId) \cap Active(prods))
    IN  IF category = 0
        THEN CatalogThrow(cats, prods, "NotFound", 0)
        ELSE CatalogReturn(cats, prods,
                 [i \in 1..Len(found) |-> ProductWithCategory(cats, found[i])])

ProductsService_findByCategory(cats, prods, categoryId) ==
    LET found == Find(prods, Where(prods, "category", categoryId) \cap Active(prods))
    IN  CatalogReturn(cats, prods,
            [i \in 1..Len(found) |-> ProductWithCategory(cats, found[i])])

ProductsService_findOne(cats, prods, id) ==
    LET product == FindOne(prods, Where(prods, "id", id) \cap Active(prods))
    IN  IF product = 0
        THEN CatalogThrow(cats, prods, "NotFound", 0)
        ELSE CatalogReturn(cats, prods, <<ProductWithCategory(cats, prods[product])>>)

\* Variant: the payload's own fields are saved before the category is checked.
ProductsService_update_SaveFirst(cats, prods, id, updateProductDto) ==
    LET found == ProductsService_findOne(cats, prods, id)
    IN  IF found.status # "OK"
        THEN found
        ELSE LET productData ==
                     [k \in DOMAIN updateProductDto \ {"categoryId"} |->
                         updateProductDto[k]]
                 product == ObjectAssign(prods[id], productData)
                 saved == Save(prods, product)
             IN  IF TruthyNumber(updateProductDto, "categoryId")
                 THEN LET category ==
                              FindOne(cats, Where(cats, "id", updateProductDto.categoryId)
                                                \cap Active(cats))
                      IN  IF category = 0
                          THEN CatalogThrow(cats, saved, "NotFound", 0)
                          ELSE LET assigned == [product EXCEPT !.category = category]
                               IN  CatalogReturn(cats, Save(prods, assigned),
                                       <<ProductWithCategory(cats, assigned)>>)
                 ELSE CatalogReturn(cats, saved, <<ProductWithCategory(cats, product)>>)

\* Variant: a categoryId that no active category has is not an error; the
\* product is saved with the null the lookup gave.
ProductsService_update_NullCategory(cats, prods, id, updateProductDto) ==
    LET found == ProductsService_findOne(cats, prods, id)
    IN  IF found.status # "OK"
        THEN found
        ELSE LET product == prods[id]
             IN  IF TruthyNumber(updateProductDto, "categoryId")
                 THEN LET category ==
                              FindOne(cats, Where(cats, "id", updateProductDto.categoryId)
                                                \cap Active(cats))
                          productData ==
                              [k \in DOMAIN updateProductDto \ {"categoryId"} |->
                                  updateProductDto[k]]
                          assigned ==
                              ObjectAssign(product, productData @@ [category |-> category])
                      IN  CatalogReturn(cats, Save(prods, assigned), <<assigned>>)
                 ELSE LET assigned == ObjectAssign(product, updateProductDto)
                      IN  CatalogReturn(cats, Save(prods, assigned),
                              <<ProductWithCategory(cats, assigned)>>)

\* Variant: the category is looked up whatever the payload; without
\* categoryId the where is { id: undefined, isActive: true }, which matches
\* on isActive alone.
ProductsService_update_AlwaysLookup(cats, prods, id, updateProductDto) ==
    LET found == ProductsService_findOne(cats, prods, id)
    IN  IF found.status # "OK"
        THEN found @@ [queries |-> <<"products.findOne">>]
        ELSE LET product == prods[id]
                 category ==
                     IF Has(updateProductDto, "categoryId")
                     THEN FindOne(cats, Where(cats, "id", updateProductDto.categoryId)
                                            \cap Active(cats))
                     ELSE FindOne(cats, Active(cats))
             IN  IF category = 0
                 THEN CatalogThrow(cats, prods, "NotFound", 0)
                          @@ [queries |-> <<"products.findOne", "categories.findOne">>]
                 ELSE LET productData ==
                              [k \in DOMAIN updateProductDto \ {"categoryId"} |->
                                  updateProductDto[k]]
                          assigned ==
                              ObjectAssign(product,
                                  productData @@ [category |-> category])
                      IN  CatalogReturn(cats, Save(prods, assigned),
                                  <<ProductWithCategory(cats, assigned)>>)
                              @@ [queries |-> <<"products.findOne",
                                                "categories.findOne", "products.save">>]

\* The result also names, in `queries`, the repository calls the method
\* made, in order.
ProductsService_update(cats, prods, id, updateProductDto) ==
    LET found == ProductsService_findOne(cats, prods, id)
    IN  IF found.status # "OK"
        THEN found @@ [queries |-> <<"products.findOne">>]
        ELSE LET product == prods[id]
             IN  IF TruthyNumber(updateProductDto, "categoryId")
                 THEN LET category ==
                              FindOne(cats, Where(cats, "id", updateProductDto.categoryId)
                                                \cap Active(cats))
                      IN  IF category = 0
                          THEN CatalogThrow(cats, prods, "NotFound", 0)
                                   @@ [queries |-> <<"products.findOne",
                                                     "categories.findOne">>]
                          ELSE LET productData ==
                                       [k \in DOMAIN updateProductDto \ {"categoryId"} |->
                                           updateProductDto[k]]
                                   assigned ==
                                       ObjectAssign(product,
                                           productData @@ [category |-> category])
                               IN  CatalogReturn(cats, Save(prods, assigned),
                                           <<ProductWithCategory(cats, assigned)>>)
                                       @@ [queries |-> <<"products.findOne",
                                                         "categories.findOne",
                                                         "products.save">>]
                 ELSE LET assigned == ObjectAssign(product, updateProductDto)
                      IN  CatalogReturn(cats, Save(prods, assigned),
                                  <<ProductWithCategory(cats, assigned)>>)
                              @@ [queries |-> <<"products.findOne", "products.save">>]

\* Variant: the row is deleted instead of flagged.
ProductsService_remove_Delete(cats, prods, id) ==
    LET found == ProductsService_findOne(cats, prods, id)
    IN  IF found.status # "OK"
        THEN found
        ELSE CatalogReturn(cats, SelectSeq(prods, LAMBDA p : p.id # id), <<>>)

\* Variant: the flag is cleared on the loaded entity but never saved.
ProductsService_remove_NoSave(cats, prods, id) ==
    LET found == ProductsService_findOne(cats, prods, id)
    IN  IF found.status # "OK"
        THEN found
        ELSE LET product == [prods[id] EXCEPT !.isActive = FALSE]
             IN  CatalogReturn(cats, prods, <<>>)

ProductsService_remove(cats, prods, id) ==
    LET found == ProductsService_findOne(cats, prods, id)
    IN  IF found.status # "OK"
        THEN found
        ELSE LET product == [prods[id] EXCEPT !.isActive = FALSE]
             IN  CatalogReturn(cats, Save(prods, product), <<>>)

(***************************************************************************)
(* ProductsController.findAll, the handler of GET /products.               *)
(***************************************************************************)
ProductsController_findAll(cats, prods, query) ==
    LET categoryId == ParseIntPipe(query, "categoryId")
    IN  IF categoryId.status # "OK"
        THEN CatalogThrow(cats, prods, categoryId.status, 0)
        ELSE IF categoryId.value # 0
             THEN ProductsService_findByCategory(cats, prods, categoryId.value)
             ELSE ProductsService_findAll(cats, prods)

\* ProductsController.create and update behind the ValidationPipe: a body
\* that fails validation is answered 400 and the handler is not called.
ProductsController_create(cats, prods, body) ==
    IF ~ValidationPipe(body, FALSE)
    THEN CatalogThrow(cats, prods, "BadRequest", 0)
    ELSE ProductsService_create(cats, prods, body)

ProductsController_update(cats, prods, id, body) ==
    IF ~ValidationPipe(body, TRUE)
    THEN CatalogThrow(cats, prods, "BadRequest", 0)
    ELSE ProductsService_update(cats, prods, id, body)

(***************************************************************************)
(* The state machine: one action per service method, requests served one   *)
(* at a time.                                                              *)
(***************************************************************************)
\* The record of a call.  `queries` holds the repository calls of the
\* methods whose result names them (the three update methods) and is empty
\* for the others.
Call(entity, op, id, dto, r) ==
    [entity |-> entity, op |-> op, id |-> id, dto |-> dto,
     status |-> r.status, ret |-> r.ret,
     count |-> IF Has(r, "count") THEN r.count ELSE 0,
     queries |-> IF Has(r, "queries") THEN r.queries ELSE <<>>]

UserCall(op, id, dto, r) ==
    /\ Len(r.users) <= MaxUsers
    /\ users' = r.users
    /\ last' = Call("User", op, id, dto, r)
    /\ UNCHANGED <<categories, products, inflight, component, http>>

CatalogCall(entity, op, id, dto, r) ==
    /\ Len(r.categories) <= MaxCategories
    /\ Len(r.products) <= MaxProducts
    /\ categories' = r.categories
    /\ products' = r.products
    /\ last' = Call(entity, op, id, dto, r)
    /\ UNCHANGED <<users, inflight, component, http>>

UsersCreate ==
    \E dto \in CreateUserDto : UserCall("create", 0, dto, UsersService_create(users, dto))

UsersFindAll == UserCall("findAll", 0, NoDto, UsersService_findAll(users))

UsersFindOne ==
    \E id \in UserIds : UserCall("findOne", id, NoDto, UsersService_findOne(users, id))

UsersUpdate ==
    \E id \in UserIds, dto \in UpdateUserDto :
        UserCall("update", id, dto, UsersService_update(users, id, dto))

UsersRemove ==
    \E id \in UserIds : UserCall("remove", id, NoDto, UsersService_remove(users, id))

CategoriesCreate ==
    \E dto \in CreateCategoryDto :
        CatalogCall("Category", "create", 0, dto,
                    CategoriesService_create(categories, products, dto))

CategoriesFindAll ==
    CatalogCall("Category", "findAll", 0, NoDto,
                CategoriesService_findAll(categories, products))

CategoriesFindOne ==
    \E id \in CategoryIds :
        CatalogCall("Category", "findOne", id, NoDto,
                    CategoriesService_findOne(categories, products, id))

CategoriesUpdate ==
    \E id \in CategoryIds, dto \in UpdateCategoryDto :
        CatalogCall("Category", "update", id, dto,
                    CategoriesService_update(categories, products, id, dto))

CategoriesRemove ==
    \E id \in CategoryIds :
        CatalogCall("Category", "remove", id, NoDto,
                    CategoriesService_remove(categories, products, id))

ProductsCreate ==
    \E dto \in CreateProductDto :
        CatalogCall("Product", "create", 0, dto,
                    ProductsService_create(categories, products, dto))

ProductsFindAll ==
    CatalogCall("Product", "findAll", 0, NoDto,
                ProductsService_findAll(categories, products))

ProductsFindByCategory ==
    \E id \in CategoryIds :
        CatalogCall("Product", "findByCategory", id, NoDto,
                    ProductsService_findByCategory(categories, products, id))

ProductsFindOne ==
    \E id \in ProductIds :
        CatalogCall("Product", "findOne", id, NoDto,
                    ProductsService_findOne(categories, products, id))

ProductsUpdate ==
    \E id \in ProductIds, dto \in UpdateProductDto :
        CatalogCall("Product", "update", id, dto,
                    ProductsService_update(categories, products, id, dto))

ProductsRemove ==
    \E id \in ProductIds :
        CatalogCall("Product", "remove", id, NoDto,
                    ProductsService_remove(categories, products, id))

ProductsControllerFindAll ==
    \E query \in ProductsQuery :
        CatalogCall("Product", "GET /products", 0, query,
                    ProductsController_findAll(categories, products, query))

ProductsControllerCreate ==
    \E body \in CreateProductBodies :
        CatalogCall("Product", "POST /products", 0, body,
                    ProductsController_create(categories, products, body))

ProductsControllerUpdate ==
    \E id \in ProductIds, body \in UpdateProductBodies :
        CatalogCall("Product", "PATCH /products/:id", id, body,
                    ProductsController_update(categories, products, id, body))

(***************************************************************************)
(* The frontend: UsersListComponent and the HTTP requests it has sent.     *)
(* A request is answered in a later step, in any order; the backend        *)
(* serves it when it answers.  null is the empty tuple for selectedUser    *)
(* and the empty string for error.                                         *)
(***************************************************************************)
\* The component as constructed, before Angular calls ngOnInit.
UsersListComponent ==
    [users |-> <<>>, selectedUser |-> <<>>, showForm |-> FALSE,
     loading |-> FALSE, error |-> "", lifecycle |-> "constructed"]

\* The fields after loadUsers() has subscribed to getAll().
UsersListComponent_loadUsers(c) == [c EXCEPT !.loading = TRUE, !.error = ""]

GetAll == [method |-> "getAll", id |-> 0]

\* The outstanding requests without the i-th, which is answered.
Answered(i) == [j \in 1..(Len(http) - 1) |-> IF j < i THEN http[j] ELSE http[j + 1]]

Backend == <<users, categories, products, last, inflight>>

NgOnInit ==
    /\ component.lifecycle = "constructed"
    /\ component' = [UsersListComponent_loadUsers(component)
                         EXCEPT !.lifecycle = "initialized"]
    /\ http' = Append(http, GetAll)
    /\ UNCHANGED Backend

OnAddUser ==
    /\ component.lifecycle = "initialized"
    /\ component' = [component EXCEPT !.selectedUser = <<>>, !.showForm = TRUE]
    /\ UNCHANGED <<Backend, http>>

OnEditUser ==
    /\ component.lifecycle = "initialized"
    /\ \E i \in 1..Len(component.users) :
           component' = [component EXCEPT !.selectedUser = component.users[i],
                                          !.showForm = TRUE]
    /\ UNCHANGED <<Backend, http>>

OnDeleteUser ==
    /\ component.lifecycle = "initialized"
    /\ \E id \in UserIds, confirm \in BOOLEAN :
           http' = IF confirm /\ Len(http) < MaxPending
                   THEN Append(http, [method |-> "delete", id |-> id])
                   ELSE http
    /\ UNCHANGED <<Backend, component>>

OnFormSubmit ==
    /\ component.lifecycle = "initialized"
    /\ Len(http) < MaxPending
    /\ component' = UsersListComponent_loadUsers(
                        [component EXCEPT !.showForm = FALSE, !.selectedUser = <<>>])
    /\ http' = Append(http, GetAll)
    /\ UNCHANGED Backend

OnFormCancel ==
    /\ component.lifecycle = "initialized"
    /\ component' = [component EXCEPT !.showForm = FALSE, !.selectedUser = <<>>]
    /\ UNCHANGED <<Backend, http>>

\* GET /users is answered: the next callback of loadUsers.
GetAllNext ==
    \E i \in 1..Len(http) :
        /\ http[i].method = "getAll"
        /\ LET r == UsersService_findAll(users)
           IN  /\ component' = [component EXCEPT !.users = r.ret, !.loading = FALSE]
               /\ last' = Call("User", "findAll", 0, NoDto, r)
        /\ http' = Answered(i)
        /\ UNCHANGED <<users, categories, products, inflight>>

\* GET /users fails (no answer, or an error answer): the error callback of
\* loadUsers.
GetAllError ==
    \E i \in 1..Len(http) :
        /\ http[i].method = "getAll"
        /\ component' = [component EXCEPT !.error = "Error al cargar usuarios",
                                          !.loading = FALSE]
        /\ http' = Answered(i)
        /\ UNCHANGED Backend

\* DELETE /users/:id is answered 204: the next callback of onDeleteUser
\* calls loadUsers().
DeleteNext ==
    \E i \in 1..Len(http) :
        /\ http[i].method = "delete"
        /\ LET r == UsersService_remove(users, http[i].id)
           IN  /\ r.status = "OK"
               /\ users' = r.users
               /\ last' = Call("User", "remove", http[i].id, NoDto, r)
        /\ component' = UsersListComponent_loadUsers(component)
        /\ http' = Append(Answered(i), GetAll)
        /\ UNCHANGED <<categories, products, inflight>>

\* DELETE /users/:id is answered with an error: the error callback of
\* onDeleteUser.
DeleteError ==
    \E i \in 1..Len(http) :
        /\ http[i].method = "delete"
        /\ LET r == UsersService_remove(users, http[i].id)
           IN  /\ r.status # "OK"
               /\ users' = r.users
               /\ last' = Call("User", "remove", http[i].id, NoDto, r)
        /\ component' = [component EXCEPT !.error = "Error al eliminar usuario"]
        /\ http' = Answered(i)
        /\ UNCHANGED <<categories, products, inflight>>

\* A fresh database: the three tables are empty and no call has been made.
Init ==
    /\ users = <<>>
    /\ categories = <<>>
    /\ products = <<>>
    /\ last = [entity |-> "none", op |-> "none", id |-> 0, dto |-> NoDto,
               status |-> "OK", ret |-> <<>>, count |-> 0, queries |-> <<>>]
    /\ inflight = [s \in Slots |-> Idle]
    /\ component = UsersListComponent
    /\ http = <<>>

NextUsers ==
    \/ UsersCreate
    \/ UsersFindAll
    \/ UsersFindOne
    \/ UsersUpdate
    \/ UsersRemove

NextCatalog ==
    \/ CategoriesCreate
    \/ CategoriesFindAll
    \/ CategoriesFindOne
    \/ CategoriesUpdate
    \/ CategoriesRemove
    \/ ProductsCreate
    \/ ProductsFindAll
    \/ ProductsFindByCategory
    \/ ProductsFindOne
    \/ ProductsUpdate
    \/ ProductsRemove

Rows(us, cats, prods) == Len(us) + Len(cats) + Len(prods)

Next ==
    \/ UsersCreate /\ Rows(users', categories', products') <= MaxRows
    \/ UsersFindAll
    \/ UsersFindOne
    \/ UsersUpdate
    \/ UsersRemove
    \/ CategoriesCreate /\ Rows(users', categories', products') <= MaxRows
    \/ CategoriesFindAll
    \/ CategoriesFindOne
    \/ CategoriesUpdate
    \/ CategoriesRemove
    \/ ProductsCreate /\ Rows(users', categories', products') <= MaxRows
    \/ ProductsFindAll
    \/ ProductsFindByCategory
    \/ ProductsFindOne
    \/ ProductsUpdate
    \/ ProductsRemove

\* The whole backend.
Spec == Init /\ [][Next]_vars

\* The users module alone.
SpecUsers == Init /\ [][NextUsers]_vars

\* The categories and products modules, which share the Category repository.
SpecCatalog == Init /\ [][NextCatalog]_vars

NextProductsApi ==
    \/ NextCatalog
    \/ ProductsControllerFindAll

\* The catalog with the GET /products endpoint in front of ProductsService.
SpecProductsApi == Init /\ [][NextProductsApi]_vars

NextProductsValidation ==
    \/ CategoriesCreate
    \/ ProductsControllerCreate
    \/ ProductsControllerUpdate

\* Product writes through the HTTP boundary, with precio and stock.
SpecProductsValidation == Init /\ [][NextProductsValidation]_vars

(***************************************************************************)
(* The service methods one await at a time.  Each operator maps the table  *)
(* and a request in flight to the table after the statements up to the     *)
(* request's next await, the await it then waits at, the entity it holds,  *)
(* and, when the method has returned or thrown (pc "done"), the outcome.   *)
(* bcrypt.hash touches no shared state and is not an interleaving point of *)
(* its own.                                                                *)
(***************************************************************************)
\* Variant: the column is declared without unique: true.
UniqueViolated_NotDeclared(table, column, entity) == FALSE

\* A column declared unique: the database refuses the write of a row whose
\* value another row holds.
UniqueViolated(table, column, entity) ==
    \E i \in 1..Len(table) :
        table[i][column] = entity[column] /\ table[i].id # entity.id

UserPending(us, pc, local) ==
    [users |-> us, pc |-> pc, local |-> local, status |-> "pending", ret |-> <<>>]

UserDone(us, status, ret) ==
    [users |-> us, pc |-> "done", local |-> <<>>, status |-> status, ret |-> ret]

\* usersRepository.save at the end of a method: the QueryFailedError of a
\* refused write is not caught and answers 500.
UsersRepository_save(us, entity) ==
    IF UniqueViolated(us, "email", entity)
    THEN UserDone(us, "InternalServerError", <<>>)
    ELSE UserDone(Save(us, entity), "OK", <<Saved(us, entity)>>)

\* Variant: the lookup and the insert are one step, nothing runs between
\* them.
UsersService_create_Await_Atomic(us, req) ==
    CASE req.pc = "findOne:email" ->
            IF FindOne(us, Where(us, "email", req.dto.email)) # 0
            THEN UserDone(us, "Conflict", <<>>)
            ELSE UsersRepository_save(us,
                     [id |-> 0, email |-> req.dto.email,
                      password |-> Hash(req.dto.password),
                      isActive |-> TRUE, createdAt |-> 0])
      [] req.pc = "save" ->
            UsersRepository_save(us,
                [id |-> 0, email |-> req.dto.email,
                 password |-> Hash(req.dto.password),
                 isActive |-> TRUE, createdAt |-> 0])

UsersService_create_Await(us, req) ==
    CASE req.pc = "findOne:email" ->
            IF FindOne(us, Where(us, "email", req.dto.email)) # 0
            THEN UserDone(us, "Conflict", <<>>)
            ELSE UserPending(us, "save", <<>>)
      [] req.pc = "save" ->
            UsersRepository_save(us,
                [id |-> 0, email |-> req.dto.email,
                 password |-> Hash(req.dto.password),
                 isActive |-> TRUE, createdAt |-> 0])

UsersService_update_Await(us, req) ==
    CASE req.pc = "findOne" ->
            LET user == FindOne(us, Where(us, "id", req.id) \cap Active(us))
            IN  IF user = 0
                THEN UserDone(us, "NotFound", <<>>)
                ELSE UserPending(us,
                         IF /\ Truthy(req.dto, "email")
                            /\ req.dto.email # us[user].email
                         THEN "findOne:email" ELSE "save",
                         us[user])
      [] req.pc = "findOne:email" ->
            IF FindOne(us, Where(us, "email", req.dto.email)) # 0
            THEN UserDone(us, "Conflict", <<>>)
            ELSE UserPending(us, "save", req.local)
      [] req.pc = "save" ->
            LET dto == IF Truthy(req.dto, "password")
                       THEN [req.dto EXCEPT !.password = Hash(req.dto.password)]
                       ELSE req.dto
            IN  UsersRepository_save(us, ObjectAssign(req.local, dto))

UsersService_remove_Await(us, req) ==
    CASE req.pc = "findOne" ->
            LET user == FindOne(us, Where(us, "id", req.id) \cap Active(us))
            IN  IF user = 0
                THEN UserDone(us, "NotFound", <<>>)
                ELSE UserPending(us, "save", us[user])
      [] req.pc = "save" ->
            [UsersRepository_save(us, [req.local EXCEPT !.isActive = FALSE])
                EXCEPT !.ret = <<>>]

CatalogPending(cats, prods, pc, local) ==
    [categories |-> cats, products |-> prods, pc |-> pc, local |-> local,
     status |-> "pending", ret |-> <<>>, count |-> 0]

CatalogDone(cats, prods, status, ret, n) ==
    [categories |-> cats, products |-> prods, pc |-> "done", local |-> <<>>,
     status |-> status, ret |-> ret, count |-> n]

\* The one-to-many side of save(category): when the entity carries its
\* products array, the foreign keys are made to agree with it.  The products
\* in the array are bound to the category, and a product bound to it in the
\* database but missing from the array is orphaned (category_id NULL, here 0).
SaveProducts(prods, category) ==
    IF ~Has(category, "products")
    THEN prods
    ELSE [i \in 1..Len(prods) |->
            IF \E j \in 1..Len(category.products) :
                   category.products[j].id = prods[i].id
            THEN [prods[i] EXCEPT !.category = category.id]
            ELSE IF prods[i].category = category.id
                 THEN [prods[i] EXCEPT !.category = 0]
                 ELSE prods[i]]

\* categoriesRepository.save at the end of a method.
CategoriesRepository_save(cats, prods, category) ==
    LET row == [f \in DOMAIN category \ {"products"} |-> category[f]]
    IN  IF UniqueViolated(cats, "nombre", row)
        THEN CatalogDone(cats, prods, "InternalServerError", <<>>, 0)
        ELSE CatalogDone(Save(cats, row), SaveProducts(prods, category), "OK",
                         <<Saved(cats, category)>>, 0)

CategoriesService_create_Await(cats, prods, req) ==
    CASE req.pc = "findOne:nombre" ->
            IF FindOne(cats, Where(cats, "nombre", req.dto.nombre)) # 0
            THEN CatalogDone(cats, prods, "Conflict", <<>>, 0)
            ELSE CatalogPending(cats, prods, "save", <<>>)
      [] req.pc = "save" ->
            CategoriesRepository_save(cats, prods,
                [id |-> 0, nombre |-> req.dto.nombre, isActive |-> TRUE,
                 createdAt |-> 0])

CategoriesService_update_Await(cats, prods, req) ==
    CASE req.pc = "findOne" ->
            LET category == FindOne(cats, Where(cats, "id", req.id) \cap Active(cats))
            IN  IF category = 0
                THEN CatalogDone(cats, prods, "NotFound", <<>>, 0)
                ELSE CatalogPending(cats, prods,
                         IF /\ Truthy(req.dto, "nombre")
                            /\ req.dto.nombre # cats[category].nombre
                         THEN "findOne:nombre" ELSE "save",
                         CategoryWithProducts(cats, prods, category))
      [] req.pc = "findOne:nombre" ->
            IF FindOne(cats, Where(cats, "nombre", req.dto.nombre)) # 0
            THEN CatalogDone(cats, prods, "Conflict", <<>>, 0)
            ELSE CatalogPending(cats, prods, "save", req.local)
      [] req.pc = "save" ->
            CategoriesRepository_save(cats, prods, ObjectAssign(req.local, req.dto))

CategoriesService_remove_Await(cats, prods, req) ==
    CASE req.pc = "findOne" ->
            LET found == FindOne(cats, Where(cats, "id", req.id))
            IN  IF found = 0
                THEN CatalogDone(cats, prods, "NotFound", <<>>, 0)
                ELSE LET category == CategoryWithProducts(cats, prods, found)
                         activeProducts ==
                             SelectSeq(category.products, LAMBDA p : p.isActive)
                     IN  IF Len(activeProducts) > 0
                         THEN CatalogDone(cats, prods, "BadRequest", <<>>,
                                          Len(activeProducts))
                         ELSE CatalogPending(cats, prods, "save", category)
      [] req.pc = "save" ->
            [CategoriesRepository_save(cats, prods,
                                       [req.local EXCEPT !.isActive = FALSE])
                EXCEPT !.ret = <<>>]

\* The category of a product without one (category_id NULL).
NullCategory == [id |-> 0, nombre |-> "", isActive |-> FALSE, createdAt |-> 0]

\* A product as findOne loads it: with the category row of that moment.
LoadProduct(cats, row) ==
    IF row.category = 0
    THEN [row EXCEPT !.category = NullCategory]
    ELSE ProductWithCategory(cats, row)

\* productsRepository.save at the end of a method: every column of the
\* entity is written, category_id from the category the entity carries.
ProductsRepository_save(cats, prods, product) ==
    LET row == [product EXCEPT !.category = product.category.id]
    IN  CatalogDone(cats, Save(prods, row), "OK",
                    <<[Saved(prods, row) EXCEPT !.category = product.category]>>, 0)

ProductsService_create_Await(cats, prods, req) ==
    CASE req.pc = "findOne:category" ->
            LET category ==
                    FindOne(cats, Where(cats, "id", req.dto.categoryId) \cap Active(cats))
            IN  IF category = 0
                THEN CatalogDone(cats, prods, "NotFound", <<>>, 0)
                ELSE CatalogPending(cats, prods, "save", cats[category])
      [] req.pc = "save" ->
            LET productData ==
                    [k \in DOMAIN req.dto \ {"categoryId"} |-> req.dto[k]]
            IN  ProductsRepository_save(cats, prods,
                    productData @@ [id |-> 0, isActive |-> TRUE, createdAt |-> 0,
                                    category |-> req.local])

ProductsService_update_Await(cats, prods, req) ==
    CASE req.pc = "findOne" ->
            LET product == FindOne(prods, Where(prods, "id", req.id) \cap Active(prods))
            IN  IF product = 0
                THEN CatalogDone(cats, prods, "NotFound", <<>>, 0)
                ELSE CatalogPending(cats, prods,
                         IF TruthyNumber(req.dto, "categoryId")
                         THEN "findOne:category" ELSE "save",
                         LoadProduct(cats, prods[product]))
      [] req.pc = "findOne:category" ->
            LET category ==
                    FindOne(cats, Where(cats, "id", req.dto.categoryId) \cap Active(cats))
                productData ==
                    [k \in DOMAIN req.dto \ {"categoryId"} |-> req.dto[k]]
            IN  IF category = 0
                THEN CatalogDone(cats, prods, "NotFound", <<>>, 0)
                ELSE CatalogPending(cats, prods, "save",
                         ObjectAssign(req.local,
                             productData @@ [category |-> cats[category]]))
      [] req.pc = "save" ->
            ProductsRepository_save(cats, prods,
                IF TruthyNumber(req.dto, "categoryId")
                THEN req.local
                ELSE ObjectAssign(req.local, req.dto))

ProductsService_remove_Await(cats, prods, req) ==
    CASE req.pc = "findOne" ->
            LET product == FindOne(prods, Where(prods, "id", req.id) \cap Active(prods))
            IN  IF product = 0
                THEN CatalogDone(cats, prods, "NotFound", <<>>, 0)
                ELSE CatalogPending(cats, prods, "save",
                                    LoadProduct(cats, prods[product]))
      [] req.pc = "save" ->
            [ProductsRepository_save(cats, prods,
                                     [req.local EXCEPT !.isActive = FALSE])
                EXCEPT !.ret = <<>>]

(***************************************************************************)
(* Two requests at a time.  A request begins by taking the first free      *)
(* place; an Await action runs one request in flight up to its next await  *)
(* and, when it has finished, records its answer in `last`.  The requests  *)
(* that race are those on rows that exist: a request for an id no row has  *)
(* ends in NotFound at its first await whatever else is in flight.         *)
(***************************************************************************)
Begin(entity, op, id, dto, pc) ==
    \E s \in Slots :
        /\ inflight[s] = Idle
        /\ \A t \in Slots : t < s => inflight[t] # Idle
        /\ inflight' = [inflight EXCEPT ![s] =
                            [entity |-> entity, op |-> op, id |-> id, dto |-> dto,
                             pc |-> pc, local |-> <<>>]]
        /\ UNCHANGED <<users, categories, products, last, component, http>>

\* The number of creates of an entity in flight.
Creating(entity) ==
    Cardinality({s \in Slots : inflight[s].entity = entity /\ inflight[s].op = "create"})

\* The request in place s after a step with result r, and the answer.
Awaited(s, r) ==
    /\ inflight' = [inflight EXCEPT ![s] =
                        IF r.pc = "done" THEN Idle
                        ELSE [inflight[s] EXCEPT !.pc = r.pc, !.local = r.local]]
    /\ last' = IF r.pc = "done"
               THEN Call(inflight[s].entity, inflight[s].op, inflight[s].id,
                         inflight[s].dto, r)
               ELSE last

UsersCreateBegin ==
    /\ Len(users) + Creating("User") < MaxUsers
    /\ \E dto \in RaceCreateUserDto : Begin("User", "create", 0, dto, "findOne:email")

UsersUpdateBegin ==
    \E id \in 1..Len(users), dto \in RaceUpdateUserDto :
        Begin("User", "update", id, dto, "findOne")

UsersRemoveBegin ==
    \E id \in 1..Len(users) : Begin("User", "remove", id, NoDto, "findOne")

UsersAwait ==
    \E s \in Slots :
        /\ inflight[s].entity = "User"
        /\ LET req == inflight[s]
               r == CASE req.op = "create" -> UsersService_create_Await(users, req)
                      [] req.op = "update" -> UsersService_update_Await(users, req)
                      [] req.op = "remove" -> UsersService_remove_Await(users, req)
           IN  /\ users' = r.users
               /\ Awaited(s, r)
        /\ UNCHANGED <<categories, products, component, http>>

CategoriesCreateBegin ==
    /\ Len(categories) + Creating("Category") < MaxCategories
    /\ \E dto \in CreateCategoryDto :
           Begin("Category", "create", 0, dto, "findOne:nombre")

CategoriesUpdateBegin ==
    \E id \in 1..Len(categories), dto \in UpdateCategoryDto :
        Begin("Category", "update", id, dto, "findOne")

CategoriesRemoveBegin ==
    \E id \in 1..Len(categories) : Begin("Category", "remove", id, NoDto, "findOne")

ProductsCreateBegin ==
    /\ Len(products) + Creating("Product") < MaxProducts
    /\ \E dto \in RaceCreateProductDto :
           Begin("Product", "create", 0, dto, "findOne:category")

ProductsUpdateBegin ==
    \E id \in 1..Len(products), dto \in RaceUpdateProductDto :
        Begin("Product", "update", id, dto, "findOne")

ProductsRemoveBegin ==
    \E id \in 1..Len(products) : Begin("Product", "remove", id, NoDto, "findOne")

CatalogAwait ==
    \E s \in Slots :
        /\ inflight[s].entity \in {"Category", "Product"}
        /\ LET req == inflight[s]
               method == <<req.entity, req.op>>
               r == CASE method = <<"Category", "create">> ->
                            CategoriesService_create_Await(categories, products, req)
                      [] method = <<"Category", "update">> ->
                            CategoriesService_update_Await(categories, products, req)
                      [] method = <<"Category", "remove">> ->
                            CategoriesService_remove_Await(categories, products, req)
                      [] method = <<"Product", "create">> ->
                            ProductsService_create_Await(categories, products, req)
                      [] method = <<"Product", "update">> ->
                            ProductsService_update_Await(categories, products, req)
                      [] method = <<"Product", "remove">> ->
                            ProductsService_remove_Await(categories, products, req)
           IN  /\ categories' = r.categories
               /\ products' = r.products
               /\ Awaited(s, r)
        /\ UNCHANGED <<users, component, http>>

\* Rows stored and rows being created.
RowsInFlight ==
    Rows(users, categories, products)
        + Creating("User") + Creating("Category") + Creating("Product")

NextKeysRace ==
    \/ UsersCreateBegin /\ RowsInFlight < MaxRows
    \/ UsersUpdateBegin
    \/ CategoriesCreateBegin /\ RowsInFlight < MaxRows
    \/ CategoriesUpdateBegin
    \/ UsersAwait
    \/ CatalogAwait

\* Creates and updates of the two entities with a natural key, two requests
\* in flight.
SpecKeysRace == Init /\ [][NextKeysRace]_vars

NextCatalogRace ==
    \/ CategoriesCreate
    \/ CategoriesRemoveBegin
    \/ ProductsCreateBegin
    \/ ProductsUpdateBegin
    \/ CatalogAwait

\* Deactivation of a category against writes of products, two requests in
\* flight.
SpecCatalogRace == Init /\ [][NextCatalogRace]_vars

NextRemoveRace ==
    \/ UsersCreate /\ Rows(users', categories', products') <= MaxRows
    \/ CategoriesCreate /\ Rows(users', categories', products') <= MaxRows
    \/ ProductsCreate /\ Rows(users', categories', products') <= MaxRows
    \/ UsersUpdateBegin
    \/ UsersRemoveBegin
    \/ ProductsUpdateBegin
    \/ ProductsRemoveBegin
    \/ UsersAwait
    \/ CatalogAwait

\* Deactivation of a user or a product against its update, two requests in
\* flight.
SpecRemoveRace == Init /\ [][NextRemoveRace]_vars

NextUsersList ==
    \/ UsersCreate
    \/ NgOnInit
    \/ OnAddUser
    \/ OnEditUser
    \/ OnDeleteUser
    \/ OnFormSubmit
    \/ OnFormCancel
    \/ GetAllNext
    \/ GetAllError
    \/ DeleteNext
    \/ DeleteError

\* The users page of the frontend over the users endpoints.
SpecUsersList == Init /\ [][NextUsersList]_vars

(***************************************************************************)
(* Vocabulary of the properties.                                           *)
(***************************************************************************)
\* The step is (or the last call was) a call of `op` on `entity`.
IsCall(call, entity, op) == call.entity = entity /\ call.op = op

Errors == {"NotFound", "Conflict", "BadRequest"}

StoreUnchanged == users' = users /\ categories' = categories /\ products' = products

\* Rows of a table that hold a natural key.
HoldersOfEmail(us, email) == {i \in 1..Len(us) : us[i].email = email}
HoldersOfNombre(cats, nombre) == {i \in 1..Len(cats) : cats[i].nombre = nombre}

\* The number of active products of a category.
ActiveProductCount(prods, categoryId) ==
    Cardinality({i \in 1..Len(prods) :
                    prods[i].category = categoryId /\ prods[i].isActive})

\* Ids of the records a list result carries.
IdsIn(list) == {list[i].id : i \in 1..Len(list)}

\* No two rows hold the same natural key.
UniqueKeys ==
    /\ \A i, j \in 1..Len(users) : users[i].email = users[j].email => i = j
    /\ \A i, j \in 1..Len(categories) :
           categories[i].nombre = categories[j].nombre => i = j

(***************************************************************************)
(* C1.  With requests served one at a time, no reachable state holds an    *)
(* active product whose category is inactive.                              *)
(***************************************************************************)
C1_NoActiveProductInInactiveCategory ==
    \A i \in 1..Len(products) : \A c \in 1..Len(categories) :
        (products[i].isActive /\ products[i].category = c) => categories[c].isActive

\* A deactivation was refused for a category with an active product while
\* another category is already inactive.
C1_Witness ==
    /\ IsCall(last, "Category", "remove") /\ last.status = "BadRequest"
    /\ \E c \in 1..Len(categories) : ~categories[c].isActive
    /\ \E i \in 1..Len(products) : products[i].isActive

(***************************************************************************)
(* C2.  A create of a User or a Category whose natural key (email, nombre) *)
(* is held by any stored row, active or not, ends in Conflict and leaves   *)
(* the store as it was; no state holds two rows with the same key.         *)
(***************************************************************************)
C2_CreateDuplicateConflicts ==
    [][ /\ (/\ IsCall(last', "User", "create")
            /\ HoldersOfEmail(users, last'.dto.email) # {})
           => (last'.status = "Conflict" /\ StoreUnchanged)
        /\ (/\ IsCall(last', "Category", "create")
            /\ HoldersOfNombre(categories, last'.dto.nombre) # {})
           => (last'.status = "Conflict" /\ StoreUnchanged)
        /\ UniqueKeys' ]_vars

\* A user create was refused because an inactive user holds the email.
C2_Witness ==
    /\ IsCall(last, "User", "create") /\ last.status = "Conflict"
    /\ \E i \in HoldersOfEmail(users, last.dto.email) : ~users[i].isActive

(***************************************************************************)
(* C3.  An update of an active User or Category that carries a natural key *)
(* held by a different row (active or not) ends in Conflict and changes    *)
(* nothing; one that carries the row's own current key succeeds.           *)
(***************************************************************************)
C3_UpdateKeyConflict ==
    [][ /\ (/\ IsCall(last', "User", "update")
            /\ last'.id \in 1..Len(users) /\ users[last'.id].isActive
            /\ Has(last'.dto, "email"))
           => /\ (HoldersOfEmail(users, last'.dto.email) \ {last'.id} # {})
                 => (last'.status = "Conflict" /\ StoreUnchanged)
              /\ (last'.dto.email = users[last'.id].email)
                 => (last'.status = "OK" /\ users'[last'.id].email = users[last'.id].email)
        /\ (/\ IsCall(last', "Category", "update")
            /\ last'.id \in 1..Len(categories) /\ categories[last'.id].isActive
            /\ Has(last'.dto, "nombre"))
           => /\ (HoldersOfNombre(categories, last'.dto.nombre) \ {last'.id} # {})
                 => (last'.status = "Conflict" /\ StoreUnchanged)
              /\ (last'.dto.nombre = categories[last'.id].nombre)
                 => (/\ last'.status = "OK"
                     /\ categories'[last'.id].nombre = categories[last'.id].nombre) ]_vars

\* A category rename was refused because an inactive category holds the name.
C3_Witness ==
    /\ IsCall(last, "Category", "update") /\ last.status = "Conflict"
    /\ \E i \in HoldersOfNombre(categories, last.dto.nombre) :
           i # last.id /\ ~categories[i].isActive

(***************************************************************************)
(* C4.  CategoriesService.remove on a stored category with n >= 1 active   *)
(* products ends in BadRequest naming n and leaves the category active     *)
(* (and the store unchanged); with no active product (inactive ones do not *)
(* count) it sets isActive to false and findAll no longer lists it.        *)
(***************************************************************************)
C4_RemoveCategoryGuard ==
    [][ (IsCall(last', "Category", "remove") /\ last'.id \in 1..Len(categories))
        => LET n == ActiveProductCount(products, last'.id)
           IN  /\ n >= 1 => /\ last'.status = "BadRequest"
                            /\ last'.count = n
                            /\ categories'[last'.id].isActive
                            /\ StoreUnchanged
               /\ n = 0 => /\ last'.status = "OK"
                           /\ ~categories'[last'.id].isActive
                           /\ last'.id \notin
                                IdsIn(CategoriesService_findAll(categories', products').ret)
      ]_vars

\* A deactivation was refused naming one active product for a category that
\* also has an inactive product.
C4_Witness ==
    /\ IsCall(last, "Category", "remove") /\ last.status = "BadRequest"
    /\ last.count = 1
    /\ \E i \in 1..Len(products) :
           products[i].category = last.id /\ ~products[i].isActive

(***************************************************************************)
(* C5.  ProductsService.create with a categoryId that no category has, or  *)
(* that an inactive category has, ends in NotFound and stores nothing;     *)
(* with the id of an active category it stores one new active product of   *)
(* that category and returns it with that category as its relation.        *)
(***************************************************************************)
C5_CreateProductCategory ==
    [][ IsCall(last', "Product", "create")
        => LET cid == last'.dto.categoryId
           IN  IF cid \in 1..Len(categories) /\ categories[cid].isActive
               THEN /\ last'.status = "OK"
                    /\ Len(products') = Len(products) + 1
                    /\ SubSeq(products', 1, Len(products)) = products
                    /\ products'[Len(products')].isActive
                    /\ products'[Len(products')].category = cid
                    /\ Len(last'.ret) = 1
                    /\ last'.ret[1].id = Len(products')
                    /\ last'.ret[1].category = categories[cid]
                    /\ categories' = categories
               ELSE last'.status = "NotFound" /\ StoreUnchanged ]_vars

\* A product create was refused because its category is inactive.
C5_Witness ==
    /\ IsCall(last, "Product", "create") /\ last.status = "NotFound"
    /\ last.dto.categoryId \in 1..Len(categories)
    /\ ~categories[last.dto.categoryId].isActive

\* Every inactive row is hidden from the reads: findAll does not list it
\* and findOne on its id ends in NotFound.
InactiveHidden(us, cats, prods) ==
    /\ \A i \in 1..Len(us) : ~us[i].isActive =>
           /\ us[i].id \notin IdsIn(UsersService_findAll(us).ret)
           /\ UsersService_findOne(us, us[i].id).status = "NotFound"
    /\ \A i \in 1..Len(cats) : ~cats[i].isActive =>
           /\ cats[i].id \notin IdsIn(CategoriesService_findAll(cats, prods).ret)
           /\ CategoriesService_findOne(cats, prods, cats[i].id).status = "NotFound"
    /\ \A i \in 1..Len(prods) : ~prods[i].isActive =>
           /\ prods[i].id \notin IdsIn(ProductsService_findAll(cats, prods).ret)
           /\ ProductsService_findOne(cats, prods, prods[i].id).status = "NotFound"

\* The row with this id is stored and inactive.
StoredInactive(table, id) ==
    \E i \in 1..Len(table) : table[i].id = id /\ ~table[i].isActive

(***************************************************************************)
(* C6.  A successful remove(id) leaves the row stored and inactive; every  *)
(* inactive row is absent from findAll and findOne on it ends in NotFound; *)
(* and a create of a User or Category with the key of an inactive row ends *)
(* in Conflict.                                                            *)
(***************************************************************************)
C6_SoftDeleteHidesButKeepsKey ==
    [][ /\ (IsCall(last', "User", "remove") /\ last'.status = "OK")
           => StoredInactive(users', last'.id)
        /\ (IsCall(last', "Category", "remove") /\ last'.status = "OK")
           => StoredInactive(categories', last'.id)
        /\ (IsCall(last', "Product", "remove") /\ last'.status = "OK")
           => StoredInactive(products', last'.id)
        /\ InactiveHidden(users', categories', products')
        /\ (/\ IsCall(last', "User", "create")
            /\ \E i \in HoldersOfEmail(users, last'.dto.email) : ~users[i].isActive)
           => (last'.status = "Conflict" /\ StoreUnchanged)
        /\ (/\ IsCall(last', "Category", "create")
            /\ \E i \in HoldersOfNombre(categories, last'.dto.nombre) :
                   ~categories[i].isActive)
           => (last'.status = "Conflict" /\ StoreUnchanged) ]_vars

\* A category create was refused because a deactivated category holds the name.
C6_Witness ==
    /\ IsCall(last, "Category", "create") /\ last.status = "Conflict"
    /\ \E i \in HoldersOfNombre(categories, last.dto.nombre) : ~categories[i].isActive

(***************************************************************************)
(* C7.  Inactive is terminal: no step takes a User, Category or Product    *)
(* from isActive = FALSE back to TRUE.                                     *)
(***************************************************************************)
StaysInactive(table, table2) ==
    \A i \in 1..Len(table) :
        ~table[i].isActive => (i <= Len(table2) /\ ~table2[i].isActive)

C7_InactiveIsTerminal ==
    [][ /\ StaysInactive(users, users')
        /\ StaysInactive(categories, categories')
        /\ StaysInactive(products, products') ]_vars

\* An update with a payload was attempted on a deactivated user, which is
\* still inactive.
C7_Witness ==
    /\ IsCall(last, "User", "update") /\ last.dto # NoDto
    /\ StoredInactive(users, last.id)

(***************************************************************************)
(* C8.  No step removes a row or changes the id of a stored row: the set   *)
(* of stored ids of each table only grows.                                 *)
(***************************************************************************)
IdsOf(table) == {table[i].id : i \in 1..Len(table)}

KeepsRows(table, table2) ==
    /\ IdsOf(table) \subseteq IdsOf(table2)
    /\ Len(table) <= Len(table2)
    /\ \A i \in 1..Len(table) : table2[i].id = table[i].id

C8_NoRowRemoved ==
    [][ /\ KeepsRows(users, users')
        /\ KeepsRows(categories, categories')
        /\ KeepsRows(products, products') ]_vars

\* A product was deactivated and its row is still stored under the same id.
C8_Witness ==
    /\ IsCall(last, "Product", "remove") /\ last.status = "OK"
    /\ StoredInactive(products, last.id)

(***************************************************************************)
(* C9.  A call that ends in NotFound, Conflict or BadRequest leaves the    *)
(* three tables exactly as they were.                                      *)
(***************************************************************************)
C9_ErrorsChangeNothing ==
    [][ last'.status \in Errors => StoreUnchanged ]_vars

\* An update of an active product that also carries a new name was refused
\* because of its categoryId.
C9_Witness ==
    /\ IsCall(last, "Product", "update") /\ last.status = "NotFound"
    /\ last.id \in 1..Len(products) /\ products[last.id].isActive
    /\ Has(last.dto, "nombre") /\ last.dto.nombre # products[last.id].nombre

(***************************************************************************)
(* C10.  Every stored password is the bcrypt hash of a submitted password  *)
(* and never a submitted plaintext: after a successful create, and after a *)
(* successful update that carries a password, the stored password is the   *)
(* hash of the one submitted.                                              *)
(***************************************************************************)
C10_PasswordsStoredHashed ==
    /\ \A i \in 1..Len(users) :
           /\ users[i].password \in {Hash(p) : p \in Passwords}
           /\ users[i].password \notin Passwords
    /\ (IsCall(last, "User", "create") /\ last.status = "OK")
       => users[last.ret[1].id].password = Hash(last.dto.password)
    /\ (IsCall(last, "User", "update") /\ last.status = "OK"
            /\ Has(last.dto, "password"))
       => users[last.id].password = Hash(last.dto.password)

\* An update that carried a password and a new email went through.
C10_Witness ==
    /\ IsCall(last, "User", "update") /\ last.status = "OK"
    /\ Has(last.dto, "password") /\ Has(last.dto, "email")
    /\ users[last.id].password = Hash(last.dto.password)

(***************************************************************************)
(* C11.  UsersService.create returns the created user without the password *)
(* field: the value handed back by a successful create (the body of the    *)
(* POST /users response) carries id, email, isActive and createdAt and no  *)
(* password.                                                               *)
(***************************************************************************)
C11_CreateReturnsNoPassword ==
    (IsCall(last, "User", "create") /\ last.status = "OK")
    => /\ Len(last.ret) = 1
       /\ {"id", "email", "isActive", "createdAt"} \subseteq DOMAIN last.ret[1]
       /\ ~Has(last.ret[1], "password")

\* The stored ids of the active rows of a table.
ActiveIds(table) == {table[i].id : i \in Active(table)}

\* A list result names each of the ids once and nothing else.
ListsExactly(list, ids) == IdsIn(list) = ids /\ Len(list) = Cardinality(ids)

(***************************************************************************)
(* C12.  findAll() of each service returns exactly the stored rows with    *)
(* isActive = TRUE: every active row once, with the stored values, and no  *)
(* inactive row; UsersService.findAll returns them without the password    *)
(* field.                                                                  *)
(***************************************************************************)
C12_FindAllListsExactlyActive ==
    LET us == UsersService_findAll(users)
        cs == CategoriesService_findAll(categories, products)
        ps == ProductsService_findAll(categories, products)
    IN  /\ us.status = "OK" /\ cs.status = "OK" /\ ps.status = "OK"
        /\ ListsExactly(us.ret, ActiveIds(users))
        /\ ListsExactly(cs.ret, ActiveIds(categories))
        /\ ListsExactly(ps.ret, ActiveIds(products))
        /\ \A i \in 1..Len(us.ret) :
               /\ ~Has(us.ret[i], "password")
               /\ us.ret[i].email = users[us.ret[i].id].email
               /\ us.ret[i].createdAt = users[us.ret[i].id].createdAt
        /\ \A i \in 1..Len(cs.ret) : CategoryRow(cs.ret[i]) = categories[cs.ret[i].id]
        /\ \A i \in 1..Len(ps.ret) :
               ps.ret[i] = ProductWithCategory(categories, products[ps.ret[i].id])
        /\ IsCall(last, "User", "findAll") => last.ret = us.ret
        /\ IsCall(last, "Category", "findAll") => last.ret = cs.ret
        /\ IsCall(last, "Product", "findAll") => last.ret = ps.ret

\* findAll listed the one active user while a deactivated user is stored.
C12_Witness ==
    /\ IsCall(last, "User", "findAll") /\ Len(last.ret) = 1
    /\ \E i \in 1..Len(users) : ~users[i].isActive

\* The columns no payload can name.
FixedColumns == {"id", "isActive", "createdAt"}

\* Between the two tables only the row `id` differs, and it keeps the
\* columns in `kept`.
OnlyRowChanged(table, table2, id, kept) ==
    /\ Len(table2) = Len(table)
    /\ \A j \in 1..Len(table) : j # id => table2[j] = table[j]
    /\ \A f \in kept : table2[id][f] = table[id][f]

ActiveProductIdsOf(prods, categoryId) ==
    {prods[i].id : i \in {j \in 1..Len(prods) :
                            prods[j].category = categoryId /\ prods[j].isActive}}

(***************************************************************************)
(* C14.  ProductsService.findByCategory(categoryId) returns exactly the    *)
(* active products whose category id is categoryId; it never ends in an    *)
(* error, whether or not a category has that id: the result is then the    *)
(* empty list, as it is when the category has no active product.           *)
(***************************************************************************)
C14_FindByCategoryExact ==
    /\ \A c \in CategoryIds \cup {MaxCategories + 1} :
           LET r == ProductsService_findByCategory(categories, products, c)
           IN  /\ r.status = "OK"
               /\ r.categories = categories /\ r.products = products
               /\ ListsExactly(r.ret, ActiveProductIdsOf(products, c))
               /\ \A i \in 1..Len(r.ret) :
                      r.ret[i] = ProductWithCategory(categories, products[r.ret[i].id])
               /\ (c \notin 1..Len(categories)) => r.ret = <<>>
    /\ IsCall(last, "Product", "findByCategory")
       => /\ last.status = "OK"
          /\ last.ret = ProductsService_findByCategory(categories, products, last.id).ret

\* findByCategory answered with the empty list for an id no category has,
\* while an active product is stored.
C14_Witness ==
    /\ IsCall(last, "Product", "findByCategory") /\ last.status = "OK"
    /\ last.id \notin 1..Len(categories) /\ last.ret = <<>>
    /\ \E i \in 1..Len(products) : products[i].isActive

\* Whatever the order in which ProductsService.remove is called on the n
\* active products of the category, each call succeeds and, once none is
\* left, CategoriesService.remove succeeds and the category is inactive.
RECURSIVE RemovableOnceEmptied(_, _, _, _)
RemovableOnceEmptied(cats, prods, categoryId, n) ==
    IF n = 0
    THEN LET r == CategoriesService_remove(cats, prods, categoryId)
         IN  /\ ActiveProductIdsOf(prods, categoryId) = {}
             /\ r.status = "OK"
             /\ ~r.categories[categoryId].isActive
    ELSE /\ ActiveProductIdsOf(prods, categoryId) # {}
         /\ \A id \in ActiveProductIdsOf(prods, categoryId) :
                LET r == ProductsService_remove(cats, prods, id)
                IN  /\ r.status = "OK"
                    /\ r.categories = cats
                    /\ RemovableOnceEmptied(r.categories, r.products, categoryId, n - 1)

(***************************************************************************)
(* C15.  A category whose deactivation is rejected with BadRequest because *)
(* of its active products can be deactivated afterwards: once              *)
(* ProductsService.remove has succeeded for each of them, in any order and *)
(* with no product added, CategoriesService.remove on it succeeds.         *)
(***************************************************************************)
C15_RejectedCategoryRemovableLater ==
    \A c \in 1..Len(categories) :
        LET rejected == CategoriesService_remove(categories, products, c)
        IN  rejected.status = "BadRequest"
            => RemovableOnceEmptied(categories, products, c, rejected.count)

\* The deactivation of a category was just rejected because of its two
\* active products.
C15_Witness ==
    /\ IsCall(last, "Category", "remove") /\ last.status = "BadRequest"
    /\ last.count = 2
    /\ Cardinality(ActiveProductIdsOf(products, last.id)) = 2

\* The ids of all the products, active or not, whose foreign key is the
\* category id.
ProductIdsOf(prods, categoryId) ==
    {prods[i].id : i \in {j \in 1..Len(prods) : prods[j].category = categoryId}}

\* A returned category carries each of its child products once, as stored.
CarriesAllChildren(category, prods) ==
    /\ ListsExactly(category.products, ProductIdsOf(prods, category.id))
    /\ \A i \in 1..Len(category.products) :
           category.products[i] = prods[category.products[i].id]

C17_ProductCategoryStored ==
    \A i \in 1..Len(products) :
        /\ products[i].category \in 1..Len(categories)
        /\ Cardinality(Where(categories, "id", products[i].category)) = 1

\* A category was deactivated while a product row, itself inactive, still
\* references it.
C17_Witness ==
    /\ IsCall(last, "Category", "remove") /\ last.status = "OK"
    /\ \E i \in 1..Len(products) : products[i].category = last.id

(***************************************************************************)
(* C18.  GET /products without the categoryId query parameter succeeds and *)
(* returns all active products; with categoryId = n (a category id, n >=   *)
(* 1) it returns the result of findByCategory(n); with a categoryId that   *)
(* is not a number it is rejected with 400 BadRequest.                     *)
(***************************************************************************)
C18_GetProductsOptionalFilter ==
    IsCall(last, "Product", "GET /products")
    => IF ~Has(last.dto, "categoryId")
       THEN /\ last.status = "OK"
            /\ last.ret = ProductsService_findAll(categories, products).ret
       ELSE IF ~IsNumeric(last.dto.categoryId)
       THEN last.status = "BadRequest"
       ELSE ParseInt(last.dto.categoryId) >= 1
            => /\ last.status = "OK"
               /\ last.ret = ProductsService_findByCategory(categories, products,
                                 ParseInt(last.dto.categoryId)).ret

\* The table of an entity.
TableOf(entity, us, cats, prods) ==
    CASE entity = "User" -> us
      [] entity = "Category" -> cats
      [] entity = "Product" -> prods

\* The table holds an active row with this id.
StoredActive(table, id) == id \in 1..Len(table) /\ table[id].isActive

(***************************************************************************)
(* C19.  update(id, payload) of the three services and remove(id) of       *)
(* UsersService and ProductsService, called with an id that no row has or  *)
(* that an inactive row has, end in NotFound and change nothing; an update *)
(* or such a remove succeeds only on a row that was active.                *)
(***************************************************************************)
C19_InactiveOrAbsentNotFound ==
    [][ (\/ last'.entity \in {"User", "Category", "Product"} /\ last'.op = "update"
         \/ last'.entity \in {"User", "Product"} /\ last'.op = "remove")
        => LET table == TableOf(last'.entity, users, categories, products)
           IN  /\ ~StoredActive(table, last'.id)
                  => (last'.status = "NotFound" /\ StoreUnchanged)
               /\ last'.status = "OK" => StoredActive(table, last'.id) ]_vars

\* A remove of an already deactivated product ended in NotFound.
C19_Witness ==
    /\ IsCall(last, "Product", "remove") /\ last.status = "NotFound"
    /\ StoredInactive(products, last.id)

\* The call queried the categories repository.
LooksUpCategory(call) ==
    \E i \in 1..Len(call.queries) : call.queries[i] = "categories.findOne"

(***************************************************************************)
(* C20.  ProductsService.update of an active product with a categoryId in  *)
(* the payload revalidates it: when no active category has that id the     *)
(* call ends in NotFound and the product, its other payload fields         *)
(* included, is unchanged; otherwise the product's category becomes that   *)
(* category.  Without categoryId the product keeps its category and the    *)
(* categories repository is not queried.                                   *)
(***************************************************************************)
C20_UpdateRevalidatesCategory ==
    [][ (IsCall(last', "Product", "update") /\ StoredActive(products, last'.id))
        => LET dto == last'.dto
           IN  IF Has(dto, "categoryId")
               THEN /\ LooksUpCategory(last')
                    /\ IF StoredActive(categories, dto.categoryId)
                       THEN /\ last'.status = "OK"
                            /\ products'[last'.id].category = dto.categoryId
                            /\ last'.ret[1].category = categories[dto.categoryId]
                       ELSE /\ last'.status = "NotFound"
                            /\ products' = products
                            /\ StoreUnchanged
               ELSE /\ last'.status = "OK"
                    /\ products'[last'.id].category = products[last'.id].category
                    /\ last'.queries = <<"products.findOne", "products.save">>
                    /\ ~LooksUpCategory(last') ]_vars

\* An update of an active product was refused because the category its
\* payload names has been deactivated.
C20_Witness ==
    /\ IsCall(last, "Product", "update") /\ last.status = "NotFound"
    /\ StoredActive(products, last.id)
    /\ Has(last.dto, "categoryId")
    /\ StoredInactive(categories, last.dto.categoryId)

\* The body carries a precio or a stock outside the bounds.
ViolatesBounds(body) ==
    \/ Has(body, "precio") /\ ~(body.precio > 0)
    \/ Has(body, "stock") /\ ~(body.stock >= 0 /\ body.stock % 1000 = 0)

C22_NoDuplicateCheckWithoutKeyChange ==
    [][ /\ (/\ IsCall(last', "User", "update") /\ StoredActive(users, last'.id)
            /\ (Has(last'.dto, "email") => last'.dto.email = users[last'.id].email))
           => /\ last'.status = "OK"
              /\ last'.queries = <<"users.findOne", "users.save">>
        /\ (/\ IsCall(last', "Category", "update")
            /\ StoredActive(categories, last'.id)
            /\ (Has(last'.dto, "nombre")
                   => last'.dto.nombre = categories[last'.id].nombre))
           => /\ last'.status = "OK"
              /\ last'.queries = <<"categories.findOne", "categories.save">> ]_vars

\* An update that carried the user's own current email went through with
\* the fetch and the save alone, while another user is stored.
C22_Witness ==
    /\ IsCall(last, "User", "update") /\ last.status = "OK"
    /\ Has(last.dto, "email") /\ users[last.id].email = last.dto.email
    /\ last.queries = <<"users.findOne", "users.save">>
    /\ Len(users) = 2

\* The request waits at its duplicate-check lookup.
AtKeyCheck(req) == req.pc \in {"findOne:email", "findOne:nombre"}

\* The request has passed its duplicate check for the key it carries and has
\* not written yet.
PastKeyCheck(req) ==
    /\ req.pc = "save"
    /\ \/ req.entity = "User" /\ Truthy(req.dto, "email")
       \/ req.entity = "Category" /\ Truthy(req.dto, "nombre")

\* The natural key a request carries.
KeyOf(req) == IF req.entity = "User" THEN req.dto.email ELSE req.dto.nombre

\* The stored rows that hold the key a request carries.
KeyHolders(req) ==
    IF req.entity = "User"
    THEN HoldersOfEmail(users, req.dto.email)
    ELSE HoldersOfNombre(categories, req.dto.nombre)

(***************************************************************************)
(* C23.  With two requests in flight, interleaved at their awaits, the     *)
(* duplicate check of a create or update looks at the stored rows alone:   *)
(* it passes, and the request goes on to its save, exactly when no row     *)
(* holds the key, whatever the other request has already checked.  So two  *)
(* requests for the same key can both be past the check before either      *)
(* writes (the witness).                                                   *)
(***************************************************************************)
C23_ChecksPassTogether ==
    [][ \A s \in Slots :
            (AtKeyCheck(inflight[s]) /\ inflight'[s] # inflight[s])
                => (inflight'[s].pc = "save" <=> KeyHolders(inflight[s]) = {}) ]_vars

\* A create and an update of another record, or two creates, are both past
\* the check for the same key; no row holds that key yet.
C23_Witness ==
    /\ PastKeyCheck(inflight[1]) /\ PastKeyCheck(inflight[2])
    /\ inflight[1].entity = inflight[2].entity
    /\ KeyOf(inflight[1]) = KeyOf(inflight[2])
    /\ KeyHolders(inflight[1]) = {}
    /\ inflight[1].op = "update"
    /\ inflight[2].op = "create"

C25_NoActiveProductInInactiveCategoryRace ==
    \A p \in 1..Len(products) :
        (products[p].isActive /\ products[p].category # 0)
            => categories[products[p].category].isActive

C27_RepeatedDeactivation ==
    [][ /\ (/\ last'.entity \in {"User", "Product"} /\ last'.op = "remove"
            /\ StoredInactive(TableOf(last'.entity, users, categories, products),
                              last'.id))
           => last'.status = "NotFound"
        /\ IsCall(last', "Category", "remove")
           => /\ StoredInactive(categories, last'.id)
                 => (last'.status = "OK" /\ StoreUnchanged)
              /\ last'.status = "NotFound" <=> last'.id \notin IdsOf(categories) ]_vars

\* A deactivation succeeded on a category that is stored inactive and has a
\* deactivated product; from here the same call succeeds again and changes
\* nothing.
C27_Witness ==
    /\ IsCall(last, "Category", "remove") /\ last.status = "OK"
    /\ StoredInactive(categories, last.id)
    /\ \E p \in 1..Len(products) :
           products[p].category = last.id /\ ~products[p].isActive
    /\ CategoriesService_remove(categories, products, last.id).status = "OK"
    /\ CategoriesService_remove(categories, products, last.id).categories = categories

\* The request in place s ran a step.
Stepped(s) == inflight[s] # Idle /\ inflight'[s] # inflight[s]

(***************************************************************************)
(* C28.  Once remove(id) has returned successfully for a User or Product,  *)
(* the record is inactive in every later state, even when an update(id)    *)
(* that read the record before the deactivation is still in flight and     *)
(* saves afterwards: no step of an update in flight turns an inactive      *)
(* record active again.                                                    *)
(***************************************************************************)
C28_UpdateKeepsRemovedInactive ==
    [][ \A s \in Slots :
            (Stepped(s) /\ inflight[s].op = "update")
                => /\ StaysInactive(users, users')
                   /\ StaysInactive(products, products') ]_vars

(***************************************************************************)
(* C29.  For every integer categoryId supplied in the query of GET         *)
(* /products, 0 included, the response contains only products whose        *)
(* category has that id: a supplied categoryId never falls through to the  *)
(* unfiltered list of all active products.                                 *)
(***************************************************************************)
C29_SuppliedCategoryIdFilters ==
    (/\ IsCall(last, "Product", "GET /products") /\ last.status = "OK"
     /\ Has(last.dto, "categoryId") /\ IsNumeric(last.dto.categoryId))
        => \A i \in 1..Len(last.ret) :
               last.ret[i].category.id = ParseInt(last.dto.categoryId)

\* The getAll requests of loadUsers that have no answer yet.
OutstandingGetAll == {i \in 1..Len(http) : http[i].method = "getAll"}

(***************************************************************************)
(* C30.  In UsersListComponent, loading is true whenever a getAll request  *)
(* issued by loadUsers is still outstanding, and false once every          *)
(* outstanding request has completed with next or error, for any sequence  *)
(* of ngOnInit, onDeleteUser and onFormSubmit and any order of the         *)
(* answers, overlapping loadUsers calls included.                          *)
(***************************************************************************)
C30_LoadingWhileOutstanding ==
    component.loading <=> OutstandingGetAll # {}

====
